---- MODULE Spec2Model ----
(***************************************************************************)
(* Email tracking-event pipeline (Anurag-choudhary/CISS-task).             *)
(*                                                                         *)
(* Two variants of the pipeline are modelled over the same state:          *)
(*   Spec      the proxy-aware server, src/server.js lines 1-518:          *)
(*             asynchronous read-modify-write of the log file, provider    *)
(*             chain ipinfo.io -> ip-api.com -> geoip-lite, pixel, click,  *)
(*             send-email and /api/report-forward handlers;                *)
(*   SpecSync  the forward-flag server, src/unnamed/part_001: synchronous  *)
(*             whole-index write, ip-api.com only, pixel, send-email,      *)
(*             /report-forward and /tracking/:id handlers.                 *)
(* FairSpec and FairSpecSync add the fairness of the Node.js event loop.   *)
(***************************************************************************)
EXTENDS Integers, Sequences, FiniteSets, TLC

\* ------------------------------------------------------------------ bounds
\* Number of requests of one run of the asynchronous server.
MaxReqs == 2
\* Number of requests of one run of the synchronous server.
MaxSyncReqs == 3

Reqs == 1..MaxReqs
SyncReqs == 1..MaxSyncReqs
AllReqs == Reqs \cup SyncReqs

\* Tracking identifiers (uuidv4 values) that occur in a run.
Ids == {"id1", "id2"}
\* An absent query parameter, header or body field (JS undefined).
Absent == "undefined"
\* !x: undefined and the empty string are falsy.
Falsy(x) == x \in {Absent, ""}
Recipients == {"a@x.org"}
Urls == {"https://example.com"}

\* encodeURIComponent on the strings that occur: '@', ':' and '/' are escaped.
\* decodeURIComponent is what the query parser of the server applies.
EncodeURIComponent(str) ==
  IF str = "a@x.org" THEN "a%40x.org"
  ELSE IF str = "b@y.org" THEN "b%40y.org"
  ELSE IF str = "https://example.com" THEN "https%3A%2F%2Fexample.com"
  ELSE IF str = "https://other.example" THEN "https%3A%2F%2Fother.example"
  ELSE str
DecodeURIComponent(str) ==
  IF str = "a%40x.org" THEN "a@x.org"
  ELSE IF str = "b%40y.org" THEN "b@y.org"
  ELSE IF str = "https%3A%2F%2Fexample.com" THEN "https://example.com"
  ELSE IF str = "https%3A%2F%2Fother.example" THEN "https://other.example"
  ELSE str

\* The URLs /send-email writes into the message (server.js 281-290).  A URL is
\* its base, its path segments, the extension after the last segment and its
\* query parameters in their encoded form.
Domain == "http://ciss-task.onrender.com"
NoParams == [x \in {} |-> ""]
trackingPixelUrl(id) ==
  [base |-> Domain, path |-> <<"pixel", id>>, ext |-> ".png", query |-> NoParams]
trackingLinkUrl(id, redirect) ==
  [base |-> Domain, path |-> <<"click", id>>, ext |-> "",
   query |-> [url |-> EncodeURIComponent(IF Falsy(redirect) THEN "https://example.com"
                                         ELSE redirect)]]
\* A pixel URL with the cache-busting value only.
uniquePixelUrlBare(id, to, now) ==
  [trackingPixelUrl(id) EXCEPT !.query = [v |-> now]]
uniquePixelUrl(id, to, now) ==
  [trackingPixelUrl(id) EXCEPT
     !.query = [original_recipient |-> EncodeURIComponent(to), v |-> now]]
forwardFormUrl(id) ==
  [base |-> Domain, path |-> <<"report-forward", id>>, ext |-> "", query |-> NoParams]

\* ------------------------------------------------------------- IP addresses
\* An address is the list of its dot-separated parts as parseInt reads them,
\* and whether the string contains a colon.
Ip(a, b, c, d) == [colon |-> FALSE, parts |-> <<a, b, c, d>>]
GoogleProxyIp == Ip(66, 102, 0, 1)
PublicIp == Ip(8, 8, 8, 8)
Ips == {GoogleProxyIp, PublicIp}

\* 32-bit words are held as two 16-bit halves <<high, low>>.
Half == 65536
Word(x) == <<(x \div Half) % Half, x % Half>>

OrBits[x \in Nat, y \in Nat] ==
  IF x = 0 /\ y = 0 THEN 0
  ELSE (IF (x % 2 = 1) \/ (y % 2 = 1) THEN 1 ELSE 0) + 2 * OrBits[x \div 2, y \div 2]
\* JS x | y.
BitOr(v, w) == <<OrBits[v[1], w[1]], OrBits[v[2], w[2]]>>
\* JS x << 8, x << 16, x << 24.
Shl8(w) == <<((w[1] * 256) % Half) + (w[2] \div 256), (w[2] * 256) % Half>>
Shl16(w) == <<w[2], 0>>
Shl24(w) == Shl8(Shl16(w))
\* JS x >>> 0: the word read as an unsigned number; a signed read has a
\* negative high half from 2^31 on.  Numbers compare high half first.
Signed(w) == IF w[1] >= 32768 THEN <<w[1] - Half, w[2]>> ELSE w
Unsigned(w) == w
NumLeq(v, w) == v[1] < w[1] \/ (v[1] = w[1] /\ v[2] <= w[2])

\* parseInt(part, 10) of a non-numeric part is NaN, which the shifts read as 0.
NaN == 0 - 1
PartWord(n) == IF n = NaN THEN Word(0) ELSE Word(n)

\* ipToLong; null is <<-1, -1>>.
NullLong == <<0 - 1, 0 - 1>>
ipToLong(ip) ==
  IF ip.colon THEN NullLong
  ELSE IF Len(ip.parts) # 4 THEN NullLong
  ELSE Unsigned(BitOr(BitOr(BitOr(Shl24(PartWord(ip.parts[1])),
                                  Shl16(PartWord(ip.parts[2]))),
                            Shl8(PartWord(ip.parts[3]))),
                      PartWord(ip.parts[4])))

emailProxyRanges ==
  { [start |-> Ip(64, 18, 0, 0),    end |-> Ip(64, 18, 15, 255)],
    [start |-> Ip(65, 54, 190, 0),  end |-> Ip(65, 54, 190, 255)],
    [start |-> Ip(66, 102, 0, 0),   end |-> Ip(66, 102, 15, 255)],
    [start |-> Ip(72, 14, 192, 0),  end |-> Ip(72, 14, 255, 255)],
    [start |-> Ip(74, 125, 0, 0),   end |-> Ip(74, 125, 255, 255)],
    [start |-> Ip(209, 85, 128, 0), end |-> Ip(209, 85, 255, 255)],
    [start |-> Ip(216, 33, 229, 0), end |-> Ip(216, 33, 229, 255)],
    [start |-> Ip(13, 111, 0, 0),   end |-> Ip(13, 111, 255, 255)] }

\* The ranges with their bounds converted (startNum, endNum).
emailProxyNums ==
  {[startNum |-> ipToLong(range.start), endNum |-> ipToLong(range.end)] :
     range \in emailProxyRanges}

isProxyIP(ip) ==
  LET ipNum == ipToLong(ip) IN
  IF ipNum = NullLong \/ ipNum = Word(0) THEN FALSE
  ELSE \E range \in emailProxyNums :
         NumLeq(range.startNum, ipNum) /\ NumLeq(ipNum, range.endNum)

\* ---------------------------------------------------------------- locations
\* x || dflt for a field that may be missing from a response object.
FieldOr(d, f, dflt) ==
  IF f \in DOMAIN d /\ d[f] \notin {"", "0", "null", Absent} THEN d[f] ELSE dflt

ProxyLocation ==
  [country |-> "Email Proxy", region |-> "Email Client", city |-> "Proxy Server",
   latitude |-> "null", longitude |-> "null", proxy |-> TRUE]

UnknownLocation ==
  [country |-> "unknown", region |-> "", city |-> "",
   latitude |-> "null", longitude |-> "null"]

\* What a provider call can settle with.  err: the promise rejects (transport
\* error or non-2xx status); otherwise data is the parsed response body.
Rejected == [err |-> TRUE]
Body(d) == [err |-> FALSE, data |-> d]

\* ipinfo.io bodies: a full answer (loc is "lat,lng", held as its comma
\* separated parts), an answer without location fields, an answer whose loc is
\* not a string, and an empty body.
IpinfoFull == [country |-> "US", region |-> "California", city |-> "Mountain View",
               loc |-> <<"37.40", "-122.07">>]
IpinfoNoFields == [error |-> "rate limited"]
IpinfoBadLoc == [country |-> "US", loc |-> <<>>, locIsString |-> FALSE]
EmptyBody == [falsy |-> TRUE]
SettleA == {Rejected, Body(IpinfoFull), Body(IpinfoNoFields), Body(IpinfoBadLoc), Body(EmptyBody)}

\* ip-api.com bodies.
IpApiFull == [status |-> "success", countryCode |-> "US", country |-> "United States",
              regionName |-> "California", city |-> "Mountain View",
              lat |-> "37.42", lon |-> "-122.08"]
IpApiFail == [status |-> "fail", message |-> "reserved range"]
SettleB == {Rejected, Body(IpApiFull), Body(IpApiFail)}

\* geoip-lite lookup results: a record, or null.
GeoipHit == [null |-> FALSE, country |-> "US", region |-> "CA", city |-> "",
             ll |-> <<"37.75", "-97.82">>]
GeoipMiss == [null |-> TRUE]
SettleC == {GeoipHit, GeoipMiss}

Truthy(d) == "falsy" \notin DOMAIN d

\* What an answer is worth, whatever the code makes of it: "usable" when it
\* carries location fields, "malformed" when it is a body without them,
\* "error" when the call failed or the provider reported no success, "miss"
\* when the offline database has no record.
Verdict(stage, s) ==
  IF stage = "A"
  THEN IF s.err \/ ~Truthy(s.data) THEN "error"
       ELSE IF {"country", "loc"} \subseteq DOMAIN s.data /\ "locIsString" \notin DOMAIN s.data
            THEN "usable" ELSE "malformed"
  ELSE IF stage = "B"
  THEN IF s.err \/ ~Truthy(s.data) THEN "error"
       ELSE IF "status" \notin DOMAIN s.data THEN "malformed"
       ELSE IF s.data.status # "success" THEN "error"
       ELSE IF {"lat", "lon"} \subseteq DOMAIN s.data THEN "usable" ELSE "malformed"
  ELSE IF s.null THEN "miss" ELSE "usable"
Consulted(stage, s) == [stage |-> stage, verdict |-> Verdict(stage, s)]

\* The three outcomes of one stage of the chain.
StageReturn(stage, location) == [kind |-> "return", from |-> stage, value |-> location]
StageFallThrough == [kind |-> "fallthrough"]
StageThrow == [kind |-> "throw"]


\* parseFloat on the coordinate strings providers send.
ParseFloat(str) ==
  IF str = "37.40" THEN "37.4"
  ELSE IF str = "-122.07" THEN "-122.07"
  ELSE "NaN"

\* -------------------------------------------------- provider chain, server.js
\* Stage A, the body of the try block: axios.get rejected, or the response.
ipinfoTry(s) ==
  IF s.err THEN StageThrow
  ELSE IF ~Truthy(s.data) THEN StageFallThrough
  ELSE IF "loc" \in DOMAIN s.data /\ "locIsString" \in DOMAIN s.data
       THEN StageThrow   \* loc.split is not a function
  ELSE LET d == s.data
           coords == IF "loc" \in DOMAIN d THEN d.loc ELSE <<>>
       IN StageReturn("A",
            [country |-> FieldOr(d, "country", "unknown"),
             region |-> FieldOr(d, "region", ""),
             city |-> FieldOr(d, "city", ""),
             latitude |-> IF Len(coords) >= 1 /\ coords[1] # ""
                          THEN ParseFloat(coords[1]) ELSE "null",
             longitude |-> IF Len(coords) >= 2 /\ coords[2] # ""
                           THEN ParseFloat(coords[2]) ELSE "null"])

Uncaught(o) == o
\* A try block whose catch only logs a warning: a throw becomes a fall through.
Caught(o) == IF o.kind = "throw" THEN StageFallThrough ELSE o

ipinfoStage(s) == Caught(ipinfoTry(s))

\* Stage B.  countryField is "countryCode" in server.js, "country" in part_001.
ipApiTry(s, countryField) ==
  IF s.err THEN StageThrow
  ELSE IF Truthy(s.data) /\ "status" \in DOMAIN s.data /\ s.data.status = "success"
  THEN LET d == s.data
       IN StageReturn("B",
            [country |-> FieldOr(d, countryField, "unknown"),
             region |-> FieldOr(d, "regionName", ""),
             city |-> FieldOr(d, "city", ""),
             latitude |-> FieldOr(d, "lat", "null"),
             longitude |-> FieldOr(d, "lon", "null")])
  ELSE StageFallThrough

ipApiStage(s) == Caught(ipApiTry(s, "countryCode"))

\* Stage C, geoip-lite.
geoipStage(g) ==
  IF g.null THEN StageFallThrough
  ELSE StageReturn("C",
         [country |-> FieldOr(g, "country", "unknown"),
          region |-> FieldOr(g, "region", ""),
          city |-> FieldOr(g, "city", ""),
          latitude |-> IF "ll" \in DOMAIN g /\ Len(g.ll) >= 1 /\ g.ll[1] # "0"
                       THEN g.ll[1] ELSE "null",
          longitude |-> IF "ll" \in DOMAIN g /\ Len(g.ll) >= 2 /\ g.ll[2] # "0"
                        THEN g.ll[2] ELSE "null"])

StageAwait(stage) == [kind |-> "await", stage |-> stage]

\* A resolver that does not ask the classifier.
GeoEnterUnclassified(ip, tok) == IF tok THEN StageAwait("A") ELSE StageAwait("B")
\* getGeolocation up to its first await.
GeoEnter(ip, tok) ==
  IF isProxyIP(ip) THEN StageReturn("proxy", ProxyLocation)
  ELSE IF tok THEN StageAwait("A")
  ELSE StageAwait("B")

AfterIpinfoAlwaysNext(s) == StageAwait("B")
\* getGeolocation from the settling of the ipinfo.io call to the next await.
AfterIpinfo(s) ==
  LET o == ipinfoStage(s)
  IN IF o.kind = "fallthrough" THEN StageAwait("B") ELSE o

\* getGeolocation from the settling of the ip-api.com call to its return;
\* g is what geoip.lookup answers if it is asked.
AfterIpApi(s, g) ==
  LET o == ipApiStage(s)
  IN IF o.kind # "fallthrough" THEN o
     ELSE LET c == geoipStage(g)
          IN IF c.kind = "fallthrough" THEN StageReturn("none", UnknownLocation) ELSE c

\* Whether AfterIpApi(s, g) asks geoip-lite.
AsksGeoip(s) == ipApiStage(s).kind = "fallthrough"


\* ---------------------------------------------------------------------- state
VARIABLES
  pc,            \* pc[r]: where request r's handler is
  req,           \* req[r]: the parameters request r arrived with
  net,           \* net[r]: the outbound call r awaits: none, pending or hung
  trail,         \* trail[r]: the provider stages r consulted, with their answers
  geo,           \* geo[r]: how getGeolocation ended for r
  resp,          \* resp[r]: the HTTP response sent to r
  trackingData,  \* the in-memory index, trackingId -> entries
  logFile,       \* tracking-log.json
  fop,           \* fop[r]: r's asynchronous readFile/writeFile chain
  errLog,        \* requests for which 'Error writing log' was printed
  calls,         \* the entries handed to logTrackingEvent, in call order
  token,         \* whether IPINFO_TOKEN is configured
  issued,        \* identifiers returned by uuidv4 so far
  lastQuery      \* the answer to the latest GET /tracking/:id

vars == <<pc, req, net, trail, geo, resp, trackingData, logFile, fop, errLog,
          calls, token, issued, lastQuery>>

NoRequest == [kind |-> "none"]
NoResponse == [status |-> 0]
NoGeo == [status |-> "none"]
NoFop == [st |-> "none"]
NoFile == [state |-> "absent", data |-> <<>>]
NoQuery == [status |-> 0]

\* The fixed 1x1 transparent GIF and its headers.
PixelResponse ==
  [status |-> 200, contentType |-> "image/gif",
   body |-> "R0lGODlhAQABAIAAAAAAAP///yH5BAEAAAAALAAAAAABAAEAAAIBRAA7",
   cacheControl |-> "no-store, no-cache, must-revalidate, proxy-revalidate",
   pragma |-> "no-cache", expires |-> "0"]

RedirectTargetNoDefault(url) == url
\* req.query.url || '/'
RedirectTarget(url) == IF url = Absent THEN "/" ELSE url
RedirectResponse(url) == [status |-> 302, location |-> url]
JsonResponse(code, what) == [status |-> code, json |-> what]

InitCommon(R) ==
  /\ pc = [r \in R |-> "idle"]
  /\ req = [r \in R |-> NoRequest]
  /\ net = [r \in R |-> "none"]
  /\ trail = [r \in R |-> <<>>]
  /\ geo = [r \in R |-> NoGeo]
  /\ resp = [r \in R |-> NoResponse]
  /\ trackingData = [i \in Ids |-> <<>>]
  /\ logFile = NoFile
  /\ fop = [r \in R |-> NoFop]
  /\ errLog = {}
  /\ calls = <<>>
  /\ issued = {}
  /\ lastQuery = NoQuery

Init ==
  /\ InitCommon(Reqs)
  /\ token \in BOOLEAN

\* Requests take the slots in order.
NextSlot(r) == pc[r] = "idle" /\ (IF r = 1 THEN TRUE ELSE pc[r - 1] # "idle")

\* Identifiers some request has named; uuidv4 never returns one of them.
Named == {req[r].id : r \in {x \in DOMAIN req : "id" \in DOMAIN req[x]}}

\* A generator that may hand out an identifier a second time.
uuidv4Repeating == Ids
\* uuidv4(): the values a call can return, an identifier not seen before.
uuidv4 == Ids \ (issued \cup Named)

\* ------------------------------------------- logTrackingEvent, server.js 30-48
\* An index that keeps one event of each type per id.
IndexPushDedup(td, id, entry) ==
  IF \E i \in 1..Len(td[id]) : td[id][i].type = entry.type
  THEN td
  ELSE [td EXCEPT ![id] = Append(@, entry)]
\* An index that puts the new entry in front.
IndexPushFront(td, id, entry) == [td EXCEPT ![id] = <<entry>> \o @]
\* The in-memory part: trackingData[trackingId].push(logEntry).
IndexPush(td, id, entry) == [td EXCEPT ![id] = Append(@, entry)]

\* What r's handler leaves behind when it calls logTrackingEvent(entry.trackingId,
\* entry): a readFile in flight, and the entry pushed on the index.
AsyncLog(r, entry) ==
  /\ fop' = [fop EXCEPT ![r] = [st |-> "reading", entry |-> entry]]
  /\ trackingData' = IndexPush(trackingData, entry.trackingId, entry)
  /\ calls' = Append(calls, entry)

\* JSON.parse of the file, [] when it is absent, empty or unparsable.
ParsedLogs(file) == IF file.state = "ok" THEN file.data ELSE <<>>

\* The readFile callback: parse, push, start writeFile.
LogRead(r) ==
  /\ fop[r].st = "reading"
  /\ fop' = [fop EXCEPT ![r] = [st |-> "writing",
                                 buf |-> Append(ParsedLogs(logFile), fop[r].entry)]]
  /\ UNCHANGED <<pc, req, net, trail, geo, resp, trackingData, logFile, errLog,
                 calls, token, issued, lastQuery>>

\* writeFile completes, or fails and the callback prints the error.
LogWrite(r) ==
  /\ fop[r].st = "writing"
  /\ \E ok \in BOOLEAN :
       /\ logFile' = IF ok THEN [state |-> "ok", data |-> fop[r].buf] ELSE logFile
       /\ errLog' = IF ok THEN errLog ELSE errLog \cup {r}
  /\ fop' = [fop EXCEPT ![r] = [st |-> "done"]]
  /\ UNCHANGED <<pc, req, net, trail, geo, resp, trackingData, calls, token,
                 issued, lastQuery>>

\* ------------------------------------------------- pixel and click, server.js
\* A pixel event filed under a fixed id, whatever the path named.
OpenEntryFirstId(r, rq, location) ==
  [trackingId |-> "id1", type |-> "open", rid |-> r, ip |-> rq.ip,
   location |-> location, isProxyDetected |-> isProxyIP(rq.ip),
   isForwarded |-> ~Falsy(rq.original_recipient),
   originalRecipient |-> IF Falsy(rq.original_recipient) THEN "null"
                         ELSE rq.original_recipient]

\* An open event whose proxy flag is never raised.
OpenEntryUnflagged(r, rq, location) ==
  [trackingId |-> rq.id, type |-> "open", rid |-> r, ip |-> rq.ip,
   location |-> location, isProxyDetected |-> FALSE,
   isForwarded |-> ~Falsy(rq.original_recipient),
   originalRecipient |-> IF Falsy(rq.original_recipient) THEN "null"
                         ELSE rq.original_recipient]

OpenEntry(r, rq, location) ==
  [trackingId |-> rq.id, type |-> "open", rid |-> r, ip |-> rq.ip,
   location |-> location, isProxyDetected |-> isProxyIP(rq.ip),
   isForwarded |-> ~Falsy(rq.original_recipient),
   originalRecipient |-> IF Falsy(rq.original_recipient) THEN "null"
                         ELSE rq.original_recipient]

ClickEntry(r, rq, location) ==
  [trackingId |-> rq.id, type |-> "click", rid |-> r, ip |-> rq.ip,
   location |-> location, redirectUrl |-> RedirectTarget(rq.url)]

\* The handler after `await getGeolocation(ip)` returned location.
HandlerEntry(r, rq, location) ==
  IF rq.kind = "pixel" THEN OpenEntry(r, rq, location) ELSE ClickEntry(r, rq, location)
HandlerResponse(rq) ==
  IF rq.kind = "pixel" THEN PixelResponse ELSE RedirectResponse(RedirectTarget(rq.url))

\* One synchronous stretch of a pixel or click handler: getGeolocation ran up to
\* step (an await, a return or a throw); tr is the trail after it.
Proceed(r, rq, step, tr) ==
  /\ trail' = [trail EXCEPT ![r] = tr]
  /\ \E h \in (IF step.kind = "await" THEN {"pending", "hung"} ELSE {"none"}) :
       net' = [net EXCEPT ![r] = h]
  /\ IF step.kind = "await"
     THEN /\ pc' = [pc EXCEPT ![r] = IF step.stage = "A" THEN "awaitA" ELSE "awaitB"]
          /\ UNCHANGED <<geo, resp, trackingData, fop, calls>>
     ELSE IF step.kind = "return"
     THEN /\ geo' = [geo EXCEPT ![r] = [status |-> "returned", from |-> step.from,
                                        value |-> step.value]]
          /\ AsyncLog(r, HandlerEntry(r, rq, step.value))
          /\ resp' = [resp EXCEPT ![r] = HandlerResponse(rq)]
          /\ pc' = [pc EXCEPT ![r] = "done"]
     ELSE \* the await throws in the async handler: nothing is sent
          /\ geo' = [geo EXCEPT ![r] = [status |-> "rejected"]]
          /\ pc' = [pc EXCEPT ![r] = "failed"]
          /\ UNCHANGED <<resp, trackingData, fop, calls>>
  /\ UNCHANGED <<logFile, errLog, token, issued, lastQuery>>

PixelRequestFrom(r, origs) ==
  /\ NextSlot(r)
  /\ \E id \in Ids, ip \in Ips, orig \in origs :
       LET rq == [kind |-> "pixel", id |-> id, ip |-> ip, original_recipient |-> orig]
       IN /\ req' = [req EXCEPT ![r] = rq]
          /\ Proceed(r, rq, GeoEnter(ip, token), <<>>)

\* GET /pixel/:trackingId.png without a query string.
PixelRequest(r) == PixelRequestFrom(r, {Absent})
\* GET /pixel/:trackingId.png?original_recipient=...: the parameter is given,
\* empty or holding an address.
ForwardedPixelRequest(r) == PixelRequestFrom(r, Recipients \cup {""})

ClickRequest(r) ==
  /\ NextSlot(r)
  /\ \E id \in Ids, ip \in Ips, url \in Urls \cup {Absent} :
       LET rq == [kind |-> "click", id |-> id, ip |-> ip, url |-> url]
       IN /\ req' = [req EXCEPT ![r] = rq]
          /\ Proceed(r, rq, GeoEnter(ip, token), <<>>)

ResumableInTurn(r, at) ==
  pc[r] = at /\ net[r] = "pending" /\ \A o \in DOMAIN net : o < r => net[o] = "none"
\* The continuation of r's await may run once r's own call has settled.
Resumable(r, at) == pc[r] = at /\ net[r] = "pending"

IpinfoSettles(r) ==
  /\ Resumable(r, "awaitA")
  /\ \E s \in SettleA :
       Proceed(r, req[r], AfterIpinfo(s), Append(trail[r], Consulted("A", s)))
  /\ UNCHANGED req

IpApiSettles(r) ==
  /\ Resumable(r, "awaitB")
  /\ \E s \in SettleB :
     \E g \in (IF AsksGeoip(s) THEN SettleC ELSE {GeoipMiss}) :
       /\ Proceed(r, req[r], AfterIpApi(s, g),
                  IF AsksGeoip(s)
                  THEN trail[r] \o <<Consulted("B", s), Consulted("C", g)>>
                  ELSE Append(trail[r], Consulted("B", s)))
  /\ UNCHANGED req


\* --------------------------------------------- send-email, server.js 273-362
SentEntry(r, rq) ==
  [trackingId |-> rq.id, type |-> "sent", rid |-> r, recipientEmail |-> rq.to,
   subject |-> rq.subject, messageId |-> <<"message", r>>, originalRecipient |-> rq.to]

\* subject || 'Tracked Email': the subject of the message handed to sendMail.
MailSubject(subject) == IF Falsy(subject) THEN "Tracked Email" ELSE subject

\* Up to `await transporter.sendMail`: 400 without a recipient, else a fresh id.
SendRequest(r) ==
  /\ NextSlot(r)
  /\ \E to \in Recipients \cup {Absent} :
       IF to = Absent
       THEN /\ req' = [req EXCEPT ![r] = [kind |-> "send", to |-> to, subject |-> Absent]]
            /\ resp' = [resp EXCEPT ![r] =
                          JsonResponse(400, [error |-> "Recipient email is required"])]
            /\ pc' = [pc EXCEPT ![r] = "done"]
            /\ UNCHANGED <<net, issued>>
       ELSE \E id \in uuidv4 :
            /\ req' = [req EXCEPT ![r] = [kind |-> "send", to |-> to, subject |-> Absent,
                                          id |-> id, mailSubject |-> MailSubject(Absent),
                                          pixelUrl |-> uniquePixelUrl(id, to, <<"now", r>>),
                                          clickUrl |-> trackingLinkUrl(id, Absent)]]
            /\ issued' = issued \cup {id}
            /\ net' = [net EXCEPT ![r] = "pending"]
            /\ pc' = [pc EXCEPT ![r] = "awaitMail"]
            /\ UNCHANGED resp
  /\ UNCHANGED <<trail, geo, trackingData, logFile, fop, errLog, calls, token, lastQuery>>

\* sendMail resolves (the sent event is logged) or rejects (500, no event).
MailSettles(r) ==
  /\ Resumable(r, "awaitMail")
  /\ \E delivered \in BOOLEAN :
       IF delivered
       THEN /\ AsyncLog(r, SentEntry(r, req[r]))
            /\ resp' = [resp EXCEPT ![r] =
                          JsonResponse(200, [success |-> TRUE, trackingId |-> req[r].id,
                                             messageId |-> <<"message", r>>])]
       ELSE /\ resp' = [resp EXCEPT ![r] =
                          JsonResponse(500, [error |-> "Failed to send email"])]
            /\ UNCHANGED <<trackingData, fop, calls>>
  /\ net' = [net EXCEPT ![r] = "none"]
  /\ pc' = [pc EXCEPT ![r] = "done"]
  /\ UNCHANGED <<req, trail, geo, logFile, errLog, token, issued, lastQuery>>

\* ------------------------------------- /api/report-forward, server.js 418-434
ReportEntry(r, rq, method, from) ==
  [trackingId |-> rq.id, type |-> "forward-report", rid |-> r,
   forwardedTo |-> rq.forwardedTo, forwardedFrom |-> from, method |-> method]

ReportBodies ==
  {[kind |-> "report", id |-> id, forwardedTo |-> fto, forwardedFrom |-> Absent] :
     id \in Ids \cup {Absent}, fto \in Recipients \cup {Absent, ""}}

\* A validation that forgets forwardedTo.
MissingParametersIdOnly(rq) == Falsy(rq.id)
\* !trackingId || !forwardedTo
MissingParameters(rq) == Falsy(rq.id) \/ Falsy(rq.forwardedTo)

ApiReportRequest(r) ==
  /\ NextSlot(r)
  /\ \E rq \in ReportBodies :
       /\ req' = [req EXCEPT ![r] = rq]
       /\ IF MissingParameters(rq)
          THEN /\ resp' = [resp EXCEPT ![r] =
                             JsonResponse(400, [error |-> "Missing required parameters"])]
               /\ UNCHANGED <<trackingData, fop, calls>>
          ELSE /\ AsyncLog(r, ReportEntry(r, rq, "api", rq.forwardedFrom))
               /\ resp' = [resp EXCEPT ![r] =
                             JsonResponse(200, [success |-> TRUE,
                                                message |-> "Forward reported successfully"])]
  /\ pc' = [pc EXCEPT ![r] = "done"]
  /\ UNCHANGED <<net, trail, geo, logFile, errLog, token, issued, lastQuery>>

\* --------------------------------------------------------- the async server
Next ==
  \E r \in Reqs :
    \/ PixelRequest(r)
    \/ ClickRequest(r)
    \/ SendRequest(r)
    \/ ApiReportRequest(r)
    \/ IpinfoSettles(r)
    \/ IpApiSettles(r)
    \/ MailSettles(r)
    \/ LogRead(r)
    \/ LogWrite(r)

Spec == Init /\ [][Next]_vars

\* The event loop runs every callback that is ready, and a call that is pending
\* (not hung) settles; nothing obliges a client to send a request.
Progress ==
  \E r \in Reqs :
    IpinfoSettles(r) \/ IpApiSettles(r) \/ MailSettles(r) \/ LogRead(r) \/ LogWrite(r)
Fairness == WF_vars(Progress)
\* The same server, its pixel route also requested with original_recipient.
NextForward == Next \/ \E r \in Reqs : ForwardedPixelRequest(r)
SpecForward == Init /\ [][NextForward]_vars

FairSpec == Init /\ [][Next]_vars /\ Fairness

\* ------------------------------ /tracking/:id and /tracking-logs, server.js
\* The log file as the server may find it when it starts.
EmptyFile == [state |-> "empty", data |-> <<>>]
CorruptFile == [state |-> "corrupt", data |-> <<>>]
StartFiles == {NoFile, EmptyFile, CorruptFile}

\* fs.readFile(logFile, 'utf8', ...) followed by JSON.parse(data): the read
\* fails on an absent file, the parse throws on an empty or unparsable one.
ReadAndParse(file) ==
  IF file.state = "absent" THEN [failed |-> "read"]
  ELSE IF file.state = "ok" THEN [failed |-> "no", logs |-> file.data]
  ELSE [failed |-> "parse"]

QueryError(id, rp) ==
  [status |-> 500, id |-> id,
   json |-> [error |-> IF rp.failed = "read" THEN "Unable to read log file"
                       ELSE "Error parsing logs"]]

\* GET /tracking/:id: from the index when it has the id, else from the file.
TrackingLookup(td, file, id) ==
  IF td[id] # <<>> THEN [status |-> 200, id |-> id, tracking |-> td[id]]
  ELSE LET rp == ReadAndParse(file) IN
       IF rp.failed # "no" THEN QueryError(id, rp)
       ELSE LET trackingLogs == SelectSeq(rp.logs, LAMBDA log : log.trackingId = id)
            IN IF Len(trackingLogs) = 0 THEN [status |-> 404, id |-> id]
               ELSE [status |-> 200, id |-> id, tracking |-> trackingLogs]

TrackingRequest(id) ==
  /\ lastQuery' = TrackingLookup(trackingData, logFile, id)
  /\ UNCHANGED <<pc, req, net, trail, geo, resp, trackingData, logFile, fop, errLog,
                 calls, token, issued>>

\* GET /tracking-logs: the whole file.
LogsDump(file) ==
  LET rp == ReadAndParse(file) IN
  IF rp.failed # "no" THEN QueryError("logs", rp)
  ELSE [status |-> 200, id |-> "logs", logs |-> rp.logs]

TrackingLogsRequest ==
  /\ lastQuery' = LogsDump(logFile)
  /\ UNCHANGED <<pc, req, net, trail, geo, resp, trackingData, logFile, fop, errLog,
                 calls, token, issued>>

\* The async server with its queries, started on any log file.
InitQuery ==
  /\ pc = [r \in Reqs |-> "idle"]
  /\ req = [r \in Reqs |-> NoRequest]
  /\ net = [r \in Reqs |-> "none"]
  /\ trail = [r \in Reqs |-> <<>>]
  /\ geo = [r \in Reqs |-> NoGeo]
  /\ resp = [r \in Reqs |-> NoResponse]
  /\ trackingData = [i \in Ids |-> <<>>]
  /\ logFile \in StartFiles
  /\ fop = [r \in Reqs |-> NoFop]
  /\ errLog = {}
  /\ calls = <<>>
  /\ issued = {}
  /\ lastQuery = NoQuery
  /\ token \in BOOLEAN

NextQuery ==
  \/ Next
  \/ \E id \in Ids : TrackingRequest(id)
  \/ TrackingLogsRequest

SpecQuery == InitQuery /\ [][NextQuery]_vars

\* The process ends and is started again: the index starts empty (server.js 14)
\* and is not read back from the file; handlers and file operations that were
\* under way are gone, the file stays as it is.
Restart ==
  /\ trackingData' = [i \in Ids |-> <<>>]
  /\ pc' = [r \in Reqs |-> IF pc[r] \in {"awaitA", "awaitB", "awaitMail"}
                           THEN "dropped" ELSE pc[r]]
  /\ net' = [r \in Reqs |-> "none"]
  /\ fop' = [r \in Reqs |-> NoFop]
  /\ UNCHANGED <<req, trail, geo, resp, logFile, errLog, calls, token, issued, lastQuery>>

NextRestart ==
  \/ Next
  \/ \E id \in Ids : TrackingRequest(id)
  \/ Restart

SpecRestart == Init /\ [][NextRestart]_vars

\* ------------------------------------ the resolver's entry, on every address
\* Strings that are not four numeric parts: parts are what parseInt makes of
\* the pieces between the dots (NaN for a piece that is no number).
Text(str, ps) == [colon |-> FALSE, parts |-> ps, text |-> str]
Ip6(str) == [colon |-> TRUE, parts |-> <<NaN>>, text |-> str]
Localhost == Text("localhost", <<NaN>>)
LoopbackIp == Ip(127, 0, 0, 1)
LoopbackIp6 == Ip6("::1")

\* The addresses next to a range: the last one before it, the first one after.
Before(q) ==
  IF q[4] > 0 THEN <<q[1], q[2], q[3], q[4] - 1>>
  ELSE IF q[3] > 0 THEN <<q[1], q[2], q[3] - 1, 255>>
  ELSE IF q[2] > 0 THEN <<q[1], q[2] - 1, 255, 255>>
  ELSE <<q[1] - 1, 255, 255, 255>>
After(q) ==
  IF q[4] < 255 THEN <<q[1], q[2], q[3], q[4] + 1>>
  ELSE IF q[3] < 255 THEN <<q[1], q[2], q[3] + 1, 0>>
  ELSE IF q[2] < 255 THEN <<q[1], q[2] + 1, 0, 0>>
  ELSE <<q[1] + 1, 0, 0, 0>>
Quad(q) == Ip(q[1], q[2], q[3], q[4])

RangeIps ==
  UNION {{range.start, range.end, Quad(After(range.start.parts)),
          Quad(Before(range.end.parts)), Quad(Before(range.start.parts)),
          Quad(After(range.end.parts))} : range \in emailProxyRanges}
PrivateIps ==
  {LoopbackIp, Ip(127, 0, 0, 2), Ip(10, 0, 0, 1), Ip(172, 16, 0, 1), Ip(192, 168, 1, 1),
   LoopbackIp6, Localhost}
OtherIps ==
  {PublicIp, Ip(0, 0, 0, 0), Ip(255, 255, 255, 255), Ip(128, 0, 0, 1),
   Ip6("2001:db8::1"), Ip6("::ffff:66.102.0.1"),
   Text("unknown", <<NaN>>), Text("66.102.0", <<66, 102, 0>>),
   Text("66.102.0.1.5", <<66, 102, 0, 1, 5>>), Text("66.102.0.x", <<66, 102, 0, NaN>>),
   Text("x.102.0.1", <<NaN, 102, 0, 1>>), Text("66.102.5.300", <<66, 102, 5, 300>>),
   Text("8.8.8.x", <<8, 8, 8, NaN>>), Text("", <<NaN>>)}
TestIps == RangeIps \cup PrivateIps \cup OtherIps

\* getGeolocation of the second server of server.js up to its first await: the
\* localhost check, then the same chain.
LocalLocation ==
  [country |-> "localhost", region |-> "local", city |-> "local",
   latitude |-> "null", longitude |-> "null"]
GeoEnterLocalhost(ip, tok) ==
  IF ip \in {LoopbackIp6, Localhost, LoopbackIp} THEN StageReturn("local", LocalLocation)
  ELSE IF tok THEN StageAwait("A")
  ELSE StageAwait("B")

\* isProxyIP(ip), and getGeolocation(ip) of either server up to its first await.
Classify(ip) ==
  /\ lastQuery' = [status |-> 0, id |-> "classify", ip |-> ip,
                   isProxy |-> isProxyIP(ip),
                   long |-> ipToLong(ip),
                   enter |-> GeoEnter(ip, token),
                   enterLocalhost |-> GeoEnterLocalhost(ip, token)]
  /\ UNCHANGED <<pc, req, net, trail, geo, resp, trackingData, logFile, fop, errLog,
                 calls, token, issued>>

NextResolve == \E ip \in TestIps : Classify(ip)

SpecResolve == Init /\ [][NextResolve]_vars


\* ===================================================== the synchronous server
\* ------------------------------------------- logTrackingEvent, part_001 39-51
\* JSON.stringify(trackingData): the keys that were ever pushed to.
\* A file that keeps the events of the first identifier only.
StringifyFirstId(td) == [i \in {k \in {"id1"} : td[k] # <<>>} |-> td[i]]
\* JSON.stringify of an entry leaves out the fields whose value is undefined.
\* (the fields taken from the query or the body are the ones that can be).
TextFields == {"originalRecipient", "recipientEmail", "subject", "forwardedTo",
               "forwardedFrom"}
JsonEntry(e) ==
  [f \in {k \in DOMAIN e : k \notin TextFields \/ e[k] # Absent} |-> e[f]]
Stringify(td) ==
  [i \in {k \in DOMAIN td : td[k] # <<>>} |->
     [n \in 1..Len(td[i]) |-> JsonEntry(td[i][n])]]

\* logTrackingEvent(entry.trackingId, entry): push, then writeFileSync, which
\* returns (wrote) or throws after the push.
SyncLog(entry, wrote) ==
  /\ trackingData' = IndexPush(trackingData, entry.trackingId, entry)
  /\ calls' = Append(calls, entry)
  /\ logFile' = IF wrote
                THEN [state |-> "ok",
                      data |-> Stringify(IndexPush(trackingData, entry.trackingId, entry))]
                ELSE logFile

\* ------------------------------------------------ getGeolocation, part_001 54-77
SyncGeolocation(s) ==
  LET o == Caught(ipApiTry(s, "country"))
  IN IF o.kind = "fallthrough" THEN StageReturn("none", UnknownLocation) ELSE o

\* --------------------------------------------------- pixel, part_001 80-126
SyncOpenEntry(r, rq, location) ==
  [trackingId |-> rq.id,
   type |-> IF rq.forwarded = "true" THEN "forward-open" ELSE "open",
   rid |-> r,
   originalRecipient |-> IF rq.recipient = Absent THEN "unknown" ELSE rq.recipient,
   ip |-> rq.ip, location |-> location]

SyncPixelRequest(r) ==
  /\ NextSlot(r)
  /\ \E id \in Ids, fwd \in {"true", Absent}, h \in {"pending", "hung"} :
       /\ req' = [req EXCEPT ![r] = [kind |-> "pixel", id |-> id, ip |-> PublicIp,
                                     recipient |-> Absent, forwarded |-> fwd]]
       /\ net' = [net EXCEPT ![r] = h]
  /\ pc' = [pc EXCEPT ![r] = "awaitB"]
  /\ UNCHANGED <<trail, geo, resp, trackingData, logFile, fop, errLog, calls, token,
                 issued, lastQuery>>

\* The ip-api.com call settles; the handler logs the event and sends the GIF,
\* unless writeFileSync throws: the async handler's promise rejects and nothing
\* is sent.
SyncIpApiSettles(r) ==
  /\ Resumable(r, "awaitB")
  /\ \E s \in SettleB, wrote \in BOOLEAN :
       LET step == SyncGeolocation(s)
       IN /\ trail' = [trail EXCEPT ![r] = Append(@, Consulted("B", s))]
          /\ IF step.kind = "return"
             THEN /\ geo' = [geo EXCEPT ![r] = [status |-> "returned", from |-> step.from,
                                                value |-> step.value]]
                  /\ SyncLog(SyncOpenEntry(r, req[r], step.value), wrote)
                  /\ resp' = [resp EXCEPT ![r] = IF wrote THEN PixelResponse ELSE NoResponse]
                  /\ pc' = [pc EXCEPT ![r] = IF wrote THEN "done" ELSE "failed"]
             ELSE /\ geo' = [geo EXCEPT ![r] = [status |-> "rejected"]]
                  /\ pc' = [pc EXCEPT ![r] = "failed"]
                  /\ UNCHANGED <<resp, trackingData, logFile, calls>>
  /\ net' = [net EXCEPT ![r] = "none"]
  /\ UNCHANGED <<req, fop, errLog, token, issued, lastQuery>>

\* --------------------------------------------- send-email, part_001 219-283
SyncSentEntry(r, rq) ==
  [trackingId |-> rq.id, type |-> "sent", rid |-> r, recipientEmail |-> rq.to,
   subject |-> rq.subject, messageId |-> <<"message", r>>]

SyncSendRequest(r) ==
  /\ NextSlot(r)
  /\ \E to \in Recipients \cup {Absent} :
       IF to = Absent
       THEN /\ req' = [req EXCEPT ![r] = [kind |-> "send", to |-> to,
                                          subject |-> "Important Information"]]
            /\ resp' = [resp EXCEPT ![r] =
                          JsonResponse(400, [error |-> "Recipient email is required"])]
            /\ pc' = [pc EXCEPT ![r] = "done"]
            /\ UNCHANGED <<net, issued>>
       ELSE \E id \in uuidv4 :
            /\ req' = [req EXCEPT ![r] = [kind |-> "send", to |-> to,
                                          subject |-> "Important Information", id |-> id,
                                          mailSubject |-> "Important Information"]]
            /\ issued' = issued \cup {id}
            /\ net' = [net EXCEPT ![r] = "pending"]
            /\ pc' = [pc EXCEPT ![r] = "awaitMail"]
            /\ UNCHANGED resp
  /\ UNCHANGED <<trail, geo, trackingData, logFile, fop, errLog, calls, token, lastQuery>>

\* sendMail settles inside the try block: a rejection, or a throw of
\* writeFileSync while the sent event is logged, is answered with 500.
SyncMailSettles(r) ==
  /\ Resumable(r, "awaitMail")
  /\ \E delivered \in BOOLEAN :
     \E wrote \in (IF delivered THEN BOOLEAN ELSE {FALSE}) :
       IF delivered
       THEN /\ SyncLog(SyncSentEntry(r, req[r]), wrote)
            /\ resp' = [resp EXCEPT ![r] =
                          IF wrote
                          THEN JsonResponse(200, [success |-> TRUE, trackingId |-> req[r].id,
                                                  message |-> "Email sent with tracking"])
                          ELSE JsonResponse(500, [error |-> "Failed to send email"])]
       ELSE /\ resp' = [resp EXCEPT ![r] =
                          JsonResponse(500, [error |-> "Failed to send email"])]
            /\ UNCHANGED <<trackingData, logFile, calls>>
  /\ net' = [net EXCEPT ![r] = "none"]
  /\ pc' = [pc EXCEPT ![r] = "done"]
  /\ UNCHANGED <<req, trail, geo, fop, errLog, token, issued, lastQuery>>

\* ------------------------------------------ /report-forward, part_001 129-145
\* forwardedFrom || 'unknown'
FromOrUnknown(from) == IF from = Absent THEN "unknown" ELSE from

\* A throw of writeFileSync in this synchronous handler reaches the framework's
\* error handler, which answers 500.
SyncReportRequest(r) ==
  /\ NextSlot(r)
  /\ \E rq \in ReportBodies :
     \E wrote \in (IF MissingParameters(rq) THEN {TRUE} ELSE BOOLEAN) :
       /\ req' = [req EXCEPT ![r] = rq]
       /\ IF MissingParameters(rq)
          THEN /\ resp' = [resp EXCEPT ![r] =
                             JsonResponse(400, [error |-> "Missing required parameters"])]
               /\ UNCHANGED <<trackingData, logFile, calls>>
          ELSE LET entry == ReportEntry(r, rq, "form-submission",
                                        FromOrUnknown(rq.forwardedFrom))
               IN /\ SyncLog(entry, wrote)
                  /\ resp' = [resp EXCEPT ![r] =
                                IF wrote
                                THEN JsonResponse(200, [success |-> TRUE, event |-> entry])
                                ELSE JsonResponse(500, [error |-> "Internal Server Error"])]
  /\ pc' = [pc EXCEPT ![r] = "done"]
  /\ UNCHANGED <<net, trail, geo, fop, errLog, token, issued, lastQuery>>

\* --------------------------------------------- /tracking/:id, part_001 286-297
TrackingAnswer(td, id) ==
  IF td[id] # <<>>
  THEN [status |-> 200, id |-> id, tracking |-> td[id]]
  ELSE [status |-> 404, id |-> id]

SyncTrackingRequest(id) ==
  /\ lastQuery' = TrackingAnswer(trackingData, id)
  /\ UNCHANGED <<pc, req, net, trail, geo, resp, trackingData, logFile, fop, errLog,
                 calls, token, issued>>

InitSync ==
  /\ InitCommon(SyncReqs)
  /\ token = FALSE

NextSync ==
  \/ \E r \in SyncReqs :
       \/ SyncPixelRequest(r)
       \/ SyncSendRequest(r)
       \/ SyncReportRequest(r)
       \/ SyncIpApiSettles(r)
       \/ SyncMailSettles(r)
  \/ \E id \in Ids : SyncTrackingRequest(id)

SpecSync == InitSync /\ [][NextSync]_vars

\* Startup, part_001 14-23: the index is what JSON.parse gives for the file, and
\* {} when the file is missing, empty or unreadable.
Load(file) ==
  IF file.state = "ok"
  THEN [i \in Ids |-> IF i \in DOMAIN file.data THEN file.data[i] ELSE <<>>]
  ELSE [i \in Ids |-> <<>>]

\* The process ends and is started again; handlers under way are gone.
SyncRestart ==
  /\ trackingData' = Load(logFile)
  /\ pc' = [r \in SyncReqs |-> IF pc[r] \in {"awaitB", "awaitMail"}
                               THEN "dropped" ELSE pc[r]]
  /\ net' = [r \in SyncReqs |-> "none"]
  /\ UNCHANGED <<req, trail, geo, resp, logFile, fop, errLog, calls, token, issued,
                 lastQuery>>

NextSyncRestart == NextSync \/ SyncRestart
SpecSyncRestart == InitSync /\ [][NextSyncRestart]_vars


\* ------------------------------------------ detectEmailClient, server.js 216-231
\* A header's text is the set of words it contains; a word keeps its capitals.
\* The referer may not be given at all.
UaWords == {"Googlebot", "Outlook", "yahoo", "Apple", "iPhone", "iPad", "Macintosh"}
RefWords == {"mail.google.com", "Outlook.live.com", "mail.yahoo.com"}
ToLowerWord(w) ==
  IF w = "Googlebot" THEN "googlebot"
  ELSE IF w = "Outlook" THEN "outlook"
  ELSE IF w = "Apple" THEN "apple"
  ELSE IF w = "iPhone" THEN "iphone"
  ELSE IF w = "iPad" THEN "ipad"
  ELSE IF w = "Macintosh" THEN "macintosh"
  ELSE IF w = "Outlook.live.com" THEN "outlook.live.com"
  ELSE w
toLowerCase(text) == {ToLowerWord(w) : w \in text}
includes(text, word) == word \in text
Referers ==
  {[given |-> TRUE, text |-> t] : t \in SUBSET RefWords} \cup {[given |-> FALSE]}

\* The same rules with Outlook tried before Gmail.
detectEmailClientOutlookFirst(userAgent, referer) ==
  LET ua == toLowerCase(userAgent)
      ref == IF referer.given THEN toLowerCase(referer.text) ELSE {}
  IN IF includes(ua, "outlook") \/ includes(ref, "outlook.live.com") THEN "Outlook"
     ELSE IF includes(ua, "googlebot") \/ includes(ref, "mail.google.com") THEN "Gmail"
     ELSE IF includes(ua, "yahoo") \/ includes(ref, "mail.yahoo.com") THEN "Yahoo Mail"
     ELSE IF \/ includes(ua, "apple") \/ includes(ua, "iphone")
             \/ includes(ua, "ipad") \/ includes(ua, "macintosh") THEN "Apple Mail"
     ELSE "Unknown"

detectEmailClient(userAgent, referer) ==
  LET ua == toLowerCase(userAgent)
      ref == IF referer.given THEN toLowerCase(referer.text) ELSE {}
  IN IF includes(ua, "googlebot") \/ includes(ref, "mail.google.com") THEN "Gmail"
     ELSE IF includes(ua, "outlook") \/ includes(ref, "outlook.live.com") THEN "Outlook"
     ELSE IF includes(ua, "yahoo") \/ includes(ref, "mail.yahoo.com") THEN "Yahoo Mail"
     ELSE IF \/ includes(ua, "apple") \/ includes(ua, "iphone")
             \/ includes(ua, "ipad") \/ includes(ua, "macintosh") THEN "Apple Mail"
     ELSE "Unknown"

\* One call of detectEmailClient on the headers of a request.
Detect(userAgent, referer) ==
  /\ lastQuery' = [status |-> 0, id |-> "detect", userAgent |-> userAgent,
                   referer |-> referer,
                   emailClient |-> detectEmailClient(userAgent, referer)]
  /\ UNCHANGED <<pc, req, net, trail, geo, resp, trackingData, logFile, fop, errLog,
                 calls, token, issued>>

NextClient ==
  \E userAgent \in SUBSET UaWords, referer \in Referers :
    Detect(userAgent, referer)
SpecClient == Init /\ [][NextClient]_vars

\* --------------------------------------------- the links of a tracked message
\* What each /send-email writes into the html of the message.
Hosts == {"http://localhost:3000", "https://tracker.example", "http://10.0.0.5:3000"}
\* Date.now(): readings of the clock.
Times == {1000, 1001, 1002}
Addresses == {"a@x.org", "b@y.org"}
Redirects == {Absent, "", "https://other.example"}
\* server.js 277-305: the pixel with its query string, the click link.
MessageLinks(id, to, now, redirect) ==
  [pixel |-> uniquePixelUrl(id, to, now), click |-> trackingLinkUrl(id, redirect),
   form |-> forwardFormUrl(id)]
\* server.js 692-699 (second server): the pixel alone, no query string.
LocalMessageLinks(host, id) ==
  [pixel |-> [base |-> host, path |-> <<"pixel", id>>, ext |-> ".png", query |-> NoParams]]
\* part_000 102-110: the same.
PlainMessageLinks(host, id) ==
  [pixel |-> [base |-> host, path |-> <<"pixel", id>>, ext |-> ".png", query |-> NoParams]]
\* part_001 226-256: the pixel, the forward pixel, the report link.
SyncMessageLinks(host, id, to, now) ==
  [pixel |-> [base |-> host, path |-> <<"pixel", id>>, ext |-> ".png",
              query |-> [recipient |-> EncodeURIComponent(to), v |-> now]],
   forwardPixel |-> [base |-> host, path |-> <<"pixel", id>>, ext |-> ".png",
                     query |-> [recipient |-> EncodeURIComponent(to),
                                forwarded |-> "true", v |-> now]],
   form |-> [base |-> host, path |-> <<"report-forward", id>>, ext |-> "",
             query |-> NoParams]]

\* One message composed by each of the servers for the same send.
Compose(host, id) ==
  \E to \in Addresses, now \in Times, redirect \in Redirects :
    /\ lastQuery' = [status |-> 0, id |-> "compose", trackingId |-> id, to |-> to,
                     links |-> [server |-> MessageLinks(id, to, now, redirect),
                                local |-> LocalMessageLinks(host, id),
                                plain |-> PlainMessageLinks(host, id),
                                sync |-> SyncMessageLinks(host, id, to, now)]]
    /\ UNCHANGED <<pc, req, net, trail, geo, resp, trackingData, logFile, fop, errLog,
                   calls, token, issued>>

NextCompose == \E host \in Hosts, id \in Ids : Compose(host, id)
SpecCompose == Init /\ [][NextCompose]_vars

\* ===================================================================== claims
Range(seq) == {seq[i] : i \in 1..Len(seq)}
LocationFields == {"country", "region", "city", "latitude", "longitude"}
Ended(r) == pc[r] \in {"done", "failed"}
FileIdle == \A r \in DOMAIN fop : fop[r].st \in {"none", "done"}

\* C1: appends to the persisted log are serialized: once every read and write
\* of the file has completed (and none failed), the file holds every entry that
\* was handed to logTrackingEvent.
C1_NoAppendLost ==
  (FileIdle /\ errLog = {}) => Range(calls) \subseteq Range(ParsedLogs(logFile))

\* C2: a pixel request whose handler has ended, however it ended, was answered
\* with 200, image/gif, the fixed image and the no-cache headers.
C2_PixelAlwaysAnswered ==
  \A r \in DOMAIN pc :
    (req[r].kind = "pixel" /\ Ended(r)) =>
      /\ resp[r].status = 200
      /\ resp[r].contentType = "image/gif"
      /\ resp[r].body = "R0lGODlhAQABAIAAAAAAAP///yH5BAEAAAAALAAAAAABAAEAAAIBRAA7"
      /\ resp[r].cacheControl = "no-store, no-cache, must-revalidate, proxy-revalidate"
      /\ resp[r].pragma = "no-cache"
      /\ resp[r].expires = "0"

ProxyIps == {ip \in Ips : isProxyIP(ip)}
AllStagesFailed(r) ==
  /\ req[r].ip \notin ProxyIps
  /\ \A i \in 1..Len(trail[r]) : trail[r][i].verdict \in {"error", "miss"}
ChainOrder == IF token THEN <<"A", "B", "C">> ELSE <<"B", "C">>
NormalizedAnswer(stage) ==
  IF stage = "A"
  THEN [country |-> "US", region |-> "California", city |-> "Mountain View",
        latitude |-> "37.4", longitude |-> "-122.07"]
  ELSE IF stage = "B"
  THEN [country |-> "US", region |-> "California", city |-> "Mountain View",
        latitude |-> "37.42", longitude |-> "-122.08"]
  ELSE [country |-> "US", region |-> "CA", city |-> "",
        latitude |-> "37.75", longitude |-> "-97.82"]
C5_ChainInOrder ==
  \A r \in DOMAIN pc :
    LET n == Len(trail[r]) IN
    /\ n <= Len(ChainOrder)
    /\ \A i \in 1..n : trail[r][i].stage = ChainOrder[i]
    /\ \A i \in 1..n : i < n => trail[r][i].verdict # "usable"
    /\ (n > 0 /\ trail[r][n].verdict = "usable") =>
         /\ geo[r].status = "returned"
         /\ geo[r].from = trail[r][n].stage
         /\ geo[r].value = NormalizedAnswer(trail[r][n].stage)
    /\ (pc[r] = "awaitA" => n = 0) /\ (pc[r] = "awaitB" => n = Len(ChainOrder) - 2)
C5_Witness ==
  \E r \in DOMAIN pc :
    /\ Len(trail[r]) = 2
    /\ trail[r][1] = [stage |-> "A", verdict |-> "error"]
    /\ trail[r][2] = [stage |-> "B", verdict |-> "usable"]
    /\ geo[r].status = "returned" /\ geo[r].from = "B"

\* C6: a stage that answered with malformed data is passed over: the Location
\* resolve returns is never built from such an answer.
C6_MalformedFallsThrough ==
  \A r \in DOMAIN pc :
    geo[r].status = "returned" =>
      \A i \in 1..Len(trail[r]) :
        trail[r][i].verdict = "malformed" => geo[r].from # trail[r][i].stage

\* C7: every provider stage is bounded by a timeout, so a handler that waits on
\* a provider eventually gets its Location, also when the provider never answers.
C7_ResolveCompletes ==
  \A r \in Reqs : (pc[r] \in {"awaitA", "awaitB"}) ~> (geo[r].status # "none")

\* C8: a request is never held up by another request's stalled provider call:
\* unless its own call hangs, every request that arrived runs to completion,
\* a pixel or click request with its event recorded.
Recorded(r) == \E e \in Range(trackingData[req[r].id]) : e.rid = r
Completed(r) ==
  /\ pc[r] = "done"
  /\ resp[r].status # 0
  /\ req[r].kind \in {"pixel", "click"} => Recorded(r)
C8_StallDoesNotBlock ==
  \A r \in Reqs : (pc[r] # "idle") ~> (Completed(r) \/ net[r] = "hung")
C8_Witness ==
  \E s, r \in Reqs :
    /\ s < r /\ net[s] = "hung" /\ trail[s] = <<>>
    /\ req[r].kind \in {"pixel", "click"} /\ Len(trail[r]) > 0 /\ Completed(r)

\* C9: every trackingId with an open, forward-open, click or forward-report
\* event has exactly one sent event, and it is the id's first event.
C9_SentPrecedes ==
  \A id \in Ids :
    LET es == trackingData[id] IN
    (\E i \in 1..Len(es) : es[i].type \in {"open", "forward-open", "click", "forward-report"})
      => /\ Cardinality({i \in 1..Len(es) : es[i].type = "sent"}) = 1
         /\ es[1].type = "sent"

\* C10: events are never deduplicated.  Whenever GET /tracking/X is answered,
\* the answer lists, in recording order, one event for every call that recorded
\* an event for X; in particular, when X's sent event was recorded first and
\* N plain pixel requests for X were completed after it, the answer is 200 with
\* exactly N+1 events, the sent event followed by N open events.
EventsFor(id) == SelectSeq(calls, LAMBDA e : e.trackingId = id)
SentThenPixels(id) ==
  LET es == EventsFor(id) IN
  /\ Len(es) >= 1
  /\ req[es[1].rid].kind = "send"
  /\ \A i \in 2..Len(es) :
       req[es[i].rid].kind = "pixel" /\ req[es[i].rid].forwarded = Absent
            /\ pc[es[i].rid] = "done"
AnsweredInFull(answer) ==
  LET es == EventsFor(answer.id) IN
  /\ answer.status = (IF es = <<>> THEN 404 ELSE 200)
  /\ answer.status = 200 => answer.tracking = es
  /\ SentThenPixels(answer.id) =>
       /\ answer.status = 200
       /\ Len(answer.tracking) = Len(es)    \* N + 1, with N = Len(es) - 1
       /\ answer.tracking[1].type = "sent"
       /\ \A i \in 2..Len(es) :
            answer.tracking[i].type = "open" /\ answer.tracking[i].rid = es[i].rid
C10_NoDeduplication ==
  [][lastQuery' # lastQuery => AnsweredInFull(lastQuery')]_vars
C10_Witness ==
  /\ lastQuery.status = 200
  /\ SentThenPixels(lastQuery.id)
  /\ Len(lastQuery.tracking) = 3
  /\ [i \in 1..3 |-> lastQuery.tracking[i].type] = <<"sent", "open", "open">>
  /\ lastQuery.tracking[2].rid # lastQuery.tracking[3].rid

\* C11: a completed pixel request has recorded exactly one event: one call of
\* logTrackingEvent, one entry of the index, under the id of its path and of
\* type open or forward-open; no entry of another id comes from it.
CallsOf(r) == {i \in 1..Len(calls) : calls[i].rid = r}
IndexEntriesOf(r, id) == {i \in 1..Len(trackingData[id]) : trackingData[id][i].rid = r}
C11_OneEventPerPixel ==
  \A r \in DOMAIN pc :
    (req[r].kind = "pixel" /\ pc[r] = "done") =>
      /\ Cardinality(CallsOf(r)) = 1
      /\ \A i \in CallsOf(r) :
           calls[i].trackingId = req[r].id /\ calls[i].type \in {"open", "forward-open"}
      /\ Cardinality(IndexEntriesOf(r, req[r].id)) = 1
      /\ \A id \in Ids \ {req[r].id} : IndexEntriesOf(r, id) = {}
C11_Witness ==
  \E r, o \in DOMAIN pc :
    /\ r # o /\ req[r].kind = "pixel" /\ req[o].kind = "pixel"
    /\ pc[r] = "done" /\ pc[o] = "done"
    /\ req[r].id = "id2" /\ req[o].id = "id2"
    /\ Len(trackingData["id2"]) = 2 /\ trackingData["id1"] = <<>>

\* C12: a forward report without trackingId or without forwardedTo (missing or
\* empty) is answered with 400 and records nothing: no call of logTrackingEvent,
\* no entry of the index and no read or write of the log file come from it.
C12_InvalidReportRejected ==
  \A r \in DOMAIN pc :
    (req[r].kind = "report" /\ (req[r].id = Absent \/ req[r].forwardedTo \in {Absent, ""})) =>
      /\ pc[r] = "done"
      /\ resp[r].status = 400
      /\ CallsOf(r) = {}
      /\ \A id \in Ids : IndexEntriesOf(r, id) = {}
      /\ fop[r] = NoFop
C12_Witness ==
  \E r, o \in DOMAIN pc :
    /\ req[r].kind = "report" /\ req[r].id = "id1" /\ req[r].forwardedTo = Absent
    /\ req[o].kind = "report" /\ req[o].id = "id1" /\ req[o].forwardedTo = ""
    /\ resp[r].status = 400 /\ resp[o].status = 400
    /\ calls = <<>> /\ logFile = NoFile /\ trackingData["id1"] = <<>>

\* C13: a forward report with trackingId and forwardedTo records exactly one
\* forward-report event for that id, carrying the forwardedTo submitted; the
\* answer is a success that carries the recorded event; and the index, from
\* which GET /tracking/{trackingId} answers, holds that event.
C13_ReportRecordedAndReturned ==
  \A r \in DOMAIN pc :
    (req[r].kind = "report" /\ ~Falsy(req[r].id) /\ ~Falsy(req[r].forwardedTo)) =>
      /\ Cardinality(CallsOf(r)) = 1
      /\ \A i \in CallsOf(r) :
           /\ calls[i].trackingId = req[r].id
           /\ calls[i].type = "forward-report"
           /\ calls[i].forwardedTo = req[r].forwardedTo
           /\ resp[r].status = 200
           /\ "success" \in DOMAIN resp[r].json /\ resp[r].json.success
           /\ "event" \in DOMAIN resp[r].json
           /\ resp[r].json.event = calls[i]
           /\ calls[i] \in Range(trackingData[req[r].id])

\* C14: a send request records a sent event exactly when the mail was accepted.
\* Without a recipient it is answered 400 with no identifier issued and nothing
\* recorded; nothing is recorded while delivery is awaited; a failed delivery
\* is answered 500 with nothing recorded; an accepted one is answered 200 with
\* exactly one sent event, carrying the recipient, the subject of the message
\* and the delivery identifier.
C14_SentIffDelivered ==
  \A r \in DOMAIN pc :
    req[r].kind = "send" =>
      /\ Falsy(req[r].to) =>
           /\ resp[r].status = 400 /\ "id" \notin DOMAIN req[r] /\ CallsOf(r) = {}
      /\ pc[r] = "awaitMail" => CallsOf(r) = {}
      /\ (pc[r] = "done" /\ ~Falsy(req[r].to)) =>
           /\ resp[r].status \in {200, 500}
           /\ resp[r].status = 500 <=> CallsOf(r) = {}
           /\ Cardinality(CallsOf(r)) <= 1
           /\ \A i \in CallsOf(r) :
                /\ calls[i].trackingId = req[r].id
                /\ calls[i].type = "sent"
                /\ calls[i].recipientEmail = req[r].to
                /\ calls[i].messageId = <<"message", r>>
                /\ calls[i].subject = req[r].mailSubject

\* C15: GET /tracking/{id} is answered 200 with the id's events when an event
\* was recorded for the id, and 404 when none was, whatever the state of the
\* log file; it is never answered with a server error.
C15_QueryFoundOrNotFound ==
  [][\A id \in Ids :
       (lastQuery' # lastQuery /\ lastQuery'.id = id) =>
         IF EventsFor(id) = <<>>
         THEN lastQuery'.status = 404
         ELSE lastQuery'.status = 200 /\ lastQuery'.tracking = EventsFor(id)]_vars

\* C16: while the log file is absent, empty or unparsable, GET /tracking-logs
\* is answered 200 with an empty list; and the file written after the first
\* event recorded on such a file holds exactly that event.
C16_UnreadableLogIsEmpty ==
  [][/\ (lastQuery' # lastQuery /\ lastQuery'.id = "logs" /\ logFile.state # "ok") =>
          (lastQuery'.status = 200 /\ lastQuery'.logs = <<>>)
     /\ (logFile.state # "ok" /\ logFile'.state = "ok") =>
          (Len(logFile'.data) = 1 /\ logFile'.data[1] \in Range(calls))]_vars

\* C17: a request that recorded an event gets its normal answer also when the
\* write of the log file failed: the image for a pixel request, success for a
\* report or a send; and the event is in the index, from which a later
\* GET /tracking/{id} answers.
NormalStatus(r) == resp[r].status = 200
C17_WriteFailureTolerated ==
  \A r \in DOMAIN pc :
    CallsOf(r) # {} =>
      /\ pc[r] = "done"
      /\ NormalStatus(r)
      /\ req[r].kind = "pixel" => resp[r] = PixelResponse
      /\ \A i \in CallsOf(r) : calls[i] \in Range(trackingData[calls[i].trackingId])

\* C18: isProxyIP answers true exactly for the dotted quads that lie in one of
\* the configured ranges, bounds included: false for the quads outside every
\* range, for every IPv6 address and for every string that is no dotted quad.
IsQuad(ip) ==
  ~ip.colon /\ Len(ip.parts) = 4 /\ \A i \in 1..4 : ip.parts[i] \in 0..255
LexLeq(a, b) ==
  \/ a = b
  \/ \E i \in 1..4 : a[i] < b[i] /\ \A j \in 1..(i - 1) : a[j] = b[j]
Listed(ip) ==
  /\ IsQuad(ip)
  /\ \E range \in emailProxyRanges :
       LexLeq(range.start.parts, ip.parts) /\ LexLeq(ip.parts, range.end.parts)
Classified == "isProxy" \in DOMAIN lastQuery
C18_ProxyExactlyInRanges ==
  Classified => (lastQuery.isProxy <=> Listed(lastQuery.ip))

\* C19: for an address the classifier flags as an email-provider proxy,
\* getGeolocation returns the Email Proxy Location, flagged proxy and with null
\* coordinates, at once: no provider stage is consulted or awaited.
C19_ProxyShortCircuit ==
  \A r \in DOMAIN pc :
    (req[r].kind \in {"pixel", "click"} /\ req[r].ip \in ProxyIps) =>
      /\ trail[r] = <<>>
      /\ net[r] = "none"
      /\ pc[r] = "done"
      /\ geo[r].status = "returned" /\ geo[r].from = "proxy"
      /\ geo[r].value.country = "Email Proxy"
      /\ geo[r].value.proxy = TRUE
      /\ geo[r].value.latitude = "null" /\ geo[r].value.longitude = "null"
C19_Witness ==
  \E r \in DOMAIN pc :
    /\ req[r].kind = "pixel" /\ req[r].ip = GoogleProxyIp /\ pc[r] = "done"
    /\ geo[r].value = ProxyLocation /\ trail[r] = <<>>
    /\ \E i \in CallsOf(r) : calls[i].location = ProxyLocation

\* C20: for a private or loopback address getGeolocation returns a synthetic
\* local Location at once, without going on to any provider; this in both
\* servers of server.js.
IsPrivate(ip) ==
  \/ ip \in {LoopbackIp6, Localhost}
  \/ /\ IsQuad(ip)
     /\ \/ ip.parts[1] \in {10, 127}
        \/ ip.parts[1] = 192 /\ ip.parts[2] = 168
        \/ ip.parts[1] = 172 /\ ip.parts[2] \in 16..31
C20_PrivateShortCircuit ==
  (Classified /\ IsPrivate(lastQuery.ip)) =>
     /\ lastQuery.enter.kind = "return" /\ lastQuery.enter.from = "local"
     /\ lastQuery.enterLocalhost.kind = "return" /\ lastQuery.enterLocalhost.from = "local"

\* C21: a pixel request is recorded as forward-open exactly when it carries the
\* forward flag, and a request made through the primary pixel URL of a delivered
\* message is recorded as a plain open that is not marked as forwarded.
ThroughEmittedPixel(r, s) ==
  /\ req[r].kind = "pixel" /\ req[s].kind = "send"
  /\ "pixelUrl" \in DOMAIN req[s] /\ resp[s].status = 200
  /\ req[s].pixelUrl.path = <<"pixel", req[r].id>>
  /\ "original_recipient" \in DOMAIN req[s].pixelUrl.query
  /\ req[r].original_recipient =
       DecodeURIComponent(req[s].pixelUrl.query.original_recipient)
ForwardFlag(r) == "forwarded" \in DOMAIN req[r] /\ req[r].forwarded = "true"
MarkedForwarded(e) ==
  \/ e.type = "forward-open"
  \/ "isForwarded" \in DOMAIN e /\ e.isForwarded
C21_ForwardOpenIffFlag ==
  \A r \in DOMAIN pc : \A i \in CallsOf(r) :
    req[r].kind = "pixel" =>
      /\ calls[i].type = "forward-open" <=> ForwardFlag(r)
      /\ (\E s \in DOMAIN pc : ThroughEmittedPixel(r, s)) =>
            (calls[i].type = "open" /\ ~MarkedForwarded(calls[i]))

\* C22: detectEmailClient returns the client of the first rule, in the order
\* Gmail, Outlook, Yahoo Mail, Apple Mail, that matches the lower-cased
\* user-agent or referer, and Unknown when no rule matches; it returns one of
\* these five values for every input, an absent referer included.
ClientRules ==
  <<[client |-> "Gmail", ua |-> {"googlebot"}, ref |-> {"mail.google.com"}],
    [client |-> "Outlook", ua |-> {"outlook"}, ref |-> {"outlook.live.com"}],
    [client |-> "Yahoo Mail", ua |-> {"yahoo"}, ref |-> {"mail.yahoo.com"}],
    [client |-> "Apple Mail", ua |-> {"apple", "iphone", "ipad", "macintosh"}, ref |-> {}]>>
Detected == "emailClient" \in DOMAIN lastQuery
RuleMatches(i) ==
  \/ toLowerCase(lastQuery.userAgent) \cap ClientRules[i].ua # {}
  \/ /\ lastQuery.referer.given
     /\ toLowerCase(lastQuery.referer.text) \cap ClientRules[i].ref # {}
C22_FirstRuleWins ==
  Detected =>
    /\ lastQuery.emailClient \in {"Gmail", "Outlook", "Yahoo Mail", "Apple Mail", "Unknown"}
    /\ \A i \in 1..Len(ClientRules) :
         (RuleMatches(i) /\ \A j \in 1..(i - 1) : ~RuleMatches(j)) =>
            lastQuery.emailClient = ClientRules[i].client
    /\ (\A i \in 1..Len(ClientRules) : ~RuleMatches(i)) => lastQuery.emailClient = "Unknown"
C22_Witness ==
  /\ Detected
  /\ lastQuery.userAgent = {"Outlook", "iPhone"} /\ ~lastQuery.referer.given
  /\ lastQuery.emailClient = "Outlook"

\* C23: the in-memory index is append-only and partitioned by trackingId: a
\* step changes the index only by a call of logTrackingEvent, which adds its
\* entry at the end of the sequence of the entry's trackingId; every other
\* sequence and every entry already recorded stay as they were.
Extended(old, new) ==
  /\ Len(new) = Len(old) + 1
  /\ SubSeq(new, 1, Len(old)) = old
C23_AppendOnly ==
  [][
      /\ \A id \in Ids :
          \/ trackingData'[id] = trackingData[id]
          \/ /\ Extended(trackingData[id], trackingData'[id])
             /\ Extended(calls, calls')
             /\ trackingData'[id][Len(trackingData'[id])] = calls'[Len(calls')]
             /\ calls'[Len(calls')].trackingId = id
             /\ \A other \in Ids \ {id} : trackingData'[other] = trackingData[other]
      /\ calls' # calls => \E changed \in Ids : trackingData'[changed] # trackingData[changed]
    ]_vars
C23_Witness ==
  /\ Len(trackingData["id1"]) = 2 /\ trackingData["id2"] = <<>>
  /\ trackingData["id1"][1].rid = 1 /\ trackingData["id1"][2].rid = 2
  /\ trackingData["id1"] = calls

\* C24: a trackingId stays queryable across restarts: the answer of
\* GET /tracking/:id holds every event persisted for the id, those written
\* before a restart included when later events of the id were recorded.
PersistedFor(id) == {e \in Range(ParsedLogs(logFile)) : e.trackingId = id}
AnswerIsCurrent ==
  /\ lastQuery.status # 0
  /\ lastQuery.id \in Ids
  /\ lastQuery = TrackingLookup(trackingData, logFile, lastQuery.id)
C24_QueryableAcrossRestarts ==
  AnswerIsCurrent =>
    \A e \in PersistedFor(lastQuery.id) :
      lastQuery.status = 200 /\ e \in Range(lastQuery.tracking)

\* C25: tracking identifiers are never reused: the identifiers issued by any
\* two sends differ, and no two sent events share a trackingId.
IssuedBy(r) == req[r].kind = "send" /\ "id" \in DOMAIN req[r]
SentEvents == {i \in 1..Len(calls) : calls[i].type = "sent"}
Composed == "links" \in DOMAIN lastQuery
CarriesId(url, route) == url.path = <<route, lastQuery.trackingId>>
C26_UrlsCarryIdAndCacheBuster ==
  Composed =>
    \A variant \in {"server", "local", "plain"} :
      LET links == lastQuery.links[variant] IN
      /\ CarriesId(links.pixel, "pixel")
      /\ "v" \in DOMAIN links.pixel.query
      /\ "click" \in DOMAIN links => CarriesId(links.click, "click")

\* C27: in the synchronous-write server the file refines the index: at startup
\* the index is what the file holds, and after every call of logTrackingEvent
\* that returns the file is the serialization of the whole index, so that a
\* restart reloads an index equal to the one held before it.
CallReturned ==
  /\ calls' # calls
  /\ \E r \in DOMAIN pc : resp'[r] # resp[r] /\ resp'[r].status = 200
Reloaded == calls' = calls /\ trackingData' # trackingData
C27_FileRefinesIndex ==
  /\ Load(logFile) = trackingData
  /\ [][/\ CallReturned =>
             /\ logFile'.state = "ok"
             /\ logFile'.data = Stringify(trackingData')
             /\ Load(logFile') = trackingData'
        /\ Reloaded => (trackingData' = Load(logFile) /\ logFile' = logFile)
        /\ (calls' = calls /\ Load(logFile) = trackingData) =>
             Load(logFile') = trackingData'
       ]_vars
C27_Witness ==
  /\ Len(calls) = 3
  /\ Len(trackingData["id1"]) = 1 /\ Len(trackingData["id2"]) = 1
  /\ logFile.state = "ok" /\ logFile.data = Stringify(trackingData)
  /\ Load(logFile) = trackingData

\* C28: every open event of the proxy-aware pixel handler is consistent: its
\* isProxyDetected is true exactly when its location is the synthetic Email
\* Proxy location (location.proxy = true).
OpenEvents == {i \in 1..Len(calls) : calls[i].type = "open"}
HasProxyLocation(e) == "proxy" \in DOMAIN e.location /\ e.location.proxy = TRUE
C28_ProxyFlagMatchesLocation ==
  \A i \in OpenEvents :
    /\ calls[i].isProxyDetected <=> HasProxyLocation(calls[i])
    /\ HasProxyLocation(calls[i]) <=> calls[i].location = ProxyLocation
C28_Witness ==
  \E i, j \in OpenEvents :
    /\ calls[i].isProxyDetected /\ calls[i].location = ProxyLocation
    /\ calls[i].ip = GoogleProxyIp
    /\ ~calls[j].isProxyDetected /\ calls[j].location.country # "Email Proxy"
    /\ calls[j].ip = PublicIp

\* C29: in the original_recipient server an open event has isForwarded = true
\* exactly when the request carried a non-empty original_recipient; every pixel
\* URL put into a message carries the parameter with the address the message
\* goes to, so every open made through an emitted pixel URL is recorded with
\* isForwarded = true and that address as originalRecipient.
C29_ForwardedIffParameter ==
  /\ \A s \in DOMAIN pc :
       IssuedBy(s) =>
         /\ "original_recipient" \in DOMAIN req[s].pixelUrl.query
         /\ DecodeURIComponent(req[s].pixelUrl.query.original_recipient) = req[s].to
         /\ ~Falsy(req[s].to)
  /\ \A r \in DOMAIN pc : \A i \in CallsOf(r) :
       req[r].kind = "pixel" =>
         /\ calls[i].isForwarded <=> ~Falsy(req[r].original_recipient)
         /\ \A s \in DOMAIN pc :
              ThroughEmittedPixel(r, s) =>
                (calls[i].isForwarded /\ calls[i].originalRecipient = req[s].to)
C29_Witness ==
  \E r, s \in DOMAIN pc : \E i \in CallsOf(r) :
    /\ ThroughEmittedPixel(r, s)
    /\ calls[i].type = "open" /\ calls[i].isForwarded
    /\ calls[i].originalRecipient = req[s].to

\* C30: for a dotted quad a.b.c.d with octets in 0..255 ipToLong returns the
\* unsigned number a*2^24 + b*2^16 + c*2^8 + d, never a negative one, so that
\* its results are ordered as the octets are ordered lexicographically; for an
\* input with ':' or without exactly four parts it returns null.
QuadNumber(q) == <<q[1] * 256 + q[2], q[3] * 256 + q[4]>>
C30_IpToLongUnsigned ==
  Classified =>
    LET ip == lastQuery.ip
        n == lastQuery.long
    IN /\ IsQuad(ip) =>
            /\ n = QuadNumber(ip.parts)
            /\ n[1] >= 0 /\ n[2] >= 0
            /\ \A other \in {o \in TestIps : IsQuad(o)} :
                 NumLeq(n, ipToLong(other)) <=> LexLeq(ip.parts, other.parts)
       /\ (ip.colon \/ Len(ip.parts) # 4) => n = NullLong
C30_Witness ==
  /\ Classified
  /\ lastQuery.ip = Ip(209, 85, 128, 0)
  /\ lastQuery.long = <<53589, 32768>>

====
